---- MODULE Spec2Model ----
(***************************************************************************)
(* A model of src/shaders.js: the text loader (parseDataFile), the colour  *)
(* deduplication (generateColorIndices), the attribute packer used by      *)
(* setupVertexBuffers, the start-up sequence main -> loadTruckData -> tick *)
(* and the camera animation.                                               *)
(*                                                                         *)
(* JavaScript strings are sequences of one-character strings; the literal  *)
(* Infinity is one lexeme "Infinity".  JavaScript numbers are records      *)
(* [kind, val] while they may be NaN or infinite, and plain integers once  *)
(* the filter of parseDataFile has kept only finite ones.                  *)
(***************************************************************************)
EXTENDS Integers, Sequences, FiniteSets, TLC

VARIABLES
    \* ---- one call sequence of parseDataFile
    text,            \* the argument of parseDataFile
    result,          \* what the last call returned
    calls,           \* number of calls made on text
    \* ---- the loop of generateColorIndices
    colorsArray,     \* its argument
    ci,              \* the loop variable i
    colorMap,        \* Map: colour key -> index
    colorIndices,    \* the output array
    nextIndex,       \* the next index to hand out
    cpc,             \* "loop" | "returned"
    \* ---- an Attributes object and its packed buffer
    attributes,      \* the attribute list, in insertion order
    buffer,          \* the packed Float32Array (a sequence of floats)
    apc,             \* "adding" | "packed" | "thrown"
    \* ---- main, loadTruckData, tick
    mpc,             \* main: "init" | "aborted" | "loading" | "running" | "failed"
    fetchState,      \* per source: "idle" | "pending" | "ok" | "failed"
    fetchText,       \* per source: the text the fetch resolved with
    lpc,             \* loadTruckData: "idle" | "await" | "resolved" | "rejected"
    parsed,          \* the arrays parseDataFile returned inside loadTruckData
    truckData,       \* the global truckData
    tickRan,         \* tick has run at least once
    drawn,           \* the shape handed to drawTruck by the last draw, if any
    cameraAngle,     \* in tenths of a degree
    animationEnabled,
    animationSpeed   \* in tenths of a degree per frame

parseVars == <<text, result, calls>>
colorVars == <<colorsArray, ci, colorMap, colorIndices, nextIndex, cpc>>
packVars  == <<attributes, buffer, apc>>
mainVars  == <<mpc, fetchState, fetchText, lpc, parsed, truckData, tickRan, drawn,
               cameraAngle, animationEnabled, animationSpeed>>
vars == <<parseVars, colorVars, packVars, mainVars>>

----------------------------------------------------------------------------
(* Bounds of the model *)

MaxLines == 3
MaxCalls == 2
MaxTriples == 3
MaxAttrs == 3
MaxVerts == 2

----------------------------------------------------------------------------
(* Characters and strings *)

BOM == "BOM"
NL  == "\n"
INF == "Infinity"

\* What String.prototype.trim and the regular expression \s treat as white
\* space: U+FEFF is white space in ECMAScript, as are \n, \r, \t and space.
IsSpace(c) == c \in {" ", NL, "\t", "\r", BOM}

Digits == <<"0", "1", "2", "3", "4", "5", "6", "7", "8", "9">>

IsDigit(c) == \E d \in 1..10 : Digits[d] = c

DigitVal(c) == (CHOOSE d \in 1..10 : Digits[d] = c) - 1

\* text.replace(/^\uFEFF/, ''): one leading byte-order mark is removed
StripBOM(s) == IF Len(s) > 0 /\ s[1] = BOM THEN Tail(s) ELSE s

RECURSIVE TrimStart(_)
TrimStart(s) ==
    IF Len(s) > 0 /\ IsSpace(s[1]) THEN TrimStart(Tail(s)) ELSE s

RECURSIVE TrimEnd(_)
TrimEnd(s) ==
    IF Len(s) > 0 /\ IsSpace(s[Len(s)]) THEN TrimEnd(SubSeq(s, 1, Len(s) - 1)) ELSE s

\* String.prototype.trim
Trim(s) == TrimEnd(TrimStart(s))

\* s.split('\n'): always at least one piece
RECURSIVE SplitNL(_, _)
SplitNL(s, cur) ==
    IF Len(s) = 0 THEN <<cur>>
    ELSE IF s[1] = NL THEN <<cur>> \o SplitNL(Tail(s), <<>>)
    ELSE SplitNL(Tail(s), Append(cur, s[1]))

\* s.split(/\s+/): the pieces between maximal runs of white space; the
\* empty string gives one empty piece.
RECURSIVE SplitWS(_, _)
SplitWS(s, cur) ==
    IF Len(s) = 0 THEN <<cur>>
    ELSE IF IsSpace(s[1]) THEN <<cur>> \o SplitWS(TrimStart(s), <<>>)
    ELSE SplitWS(Tail(s), Append(cur, s[1]))

----------------------------------------------------------------------------
(* Numbers *)

Finite(n) == [kind |-> "finite", val |-> n]
NaN       == [kind |-> "NaN", val |-> 0]
Infinity  == [kind |-> "Infinity", val |-> 0]

RECURSIVE DecimalValue(_, _)
DecimalValue(s, acc) ==
    IF Len(s) = 0 THEN acc ELSE DecimalValue(Tail(s), 10 * acc + DigitVal(s[1]))

\* Number(token) for a token without white space: the empty string is 0,
\* a digit string its value, the literal Infinity is infinite, anything
\* else is NaN.
Number(tok) ==
    IF Len(tok) = 0 THEN Finite(0)
    ELSE IF \A k \in 1..Len(tok) : IsDigit(tok[k]) THEN Finite(DecimalValue(tok, 0))
    ELSE IF tok = <<INF>> THEN Infinity
    ELSE NaN

\* isNaN(val) || !isFinite(val)
IsInvalid(val) == val.kind = "NaN" \/ val.kind # "finite"

----------------------------------------------------------------------------
(* parseDataFile *)

\* createDefaultCubeData(): 8 vertices of an axis-aligned unit cube, 3
\* numbers each.
createDefaultCubeData ==
    <<0,0,0, 1,0,0, 1,1,0, 0,1,0, 0,0,1, 1,0,1, 1,1,1, 0,1,1>>

\* line => line.trim().split(/\s+/).map(Number)
MapLine(line) ==
    LET toks == SplitWS(Trim(line), <<>>)
    IN  [k \in 1..Len(toks) |-> Number(toks[k])]

\* A filter that tests isNaN alone and forgets !isFinite
KeepLineNaNOnly(values) == ~ \E k \in 1..Len(values) : values[k].kind = "NaN"

\* values => !values.some(val => isNaN(val) || !isFinite(val))
KeepLine(values) == ~ \E k \in 1..Len(values) : IsInvalid(values[k])

\* Array.prototype.flat, one level
RECURSIVE Flat(_)
Flat(ss) == IF Len(ss) = 0 THEN <<>> ELSE Head(ss) \o Flat(Tail(ss))

\* The finite numbers that survive the filter, as integers
Vals(values) == [k \in 1..Len(values) |-> values[k].val]

\* !text || text.trim() === ''
IsEmptyText(t) == Len(t) = 0 \/ Trim(t) = <<>>

parseDataFile(t0) ==
    LET t == StripBOM(t0)
    IN  IF IsEmptyText(t) THEN createDefaultCubeData
        ELSE LET lines  == SplitNL(Trim(t), <<>>)
                 mapped == [k \in 1..Len(lines) |-> MapLine(lines[k])]
                 kept   == SelectSeq(mapped, KeepLine)
                 flat   == Vals(Flat(kept))
             IN  IF Len(flat) > 0 THEN flat ELSE createDefaultCubeData

----------------------------------------------------------------------------
(* The texts parseDataFile is called on: an optional byte-order mark, up to *)
(* MaxLines lines joined by newlines, an optional trailing newline.         *)

LineChoices ==
    << <<"1", " ", "2", " ", "3">>,                 \* three numbers
       <<"2", " ", " ", "3", "\t", "1", " ">>,      \* uneven white space
       <<>>,                                        \* a blank line
       <<"1", " ", "x", " ", "3">>,                 \* a token that is no number
       <<"1", " ", INF, " ", "2">>,                 \* a token that is not finite
       <<"1", "2", " ", "3">>,                      \* two numbers
       <<" ">>,                                     \* white space only
       <<"3", " ", "2", " ", "1", "\r">> >>         \* a CR LF line ending

RECURSIVE JoinLines(_)
JoinLines(ls) ==
    IF Len(ls) = 0 THEN <<>>
    ELSE IF Len(ls) = 1 THEN ls[1]
    ELSE ls[1] \o <<NL>> \o JoinLines(Tail(ls))

LineSeqs == UNION {[1..n -> 1..Len(LineChoices)] : n \in 0..MaxLines}

Texts ==
    { pre \o JoinLines([k \in 1..Len(f) |-> LineChoices[f[k]]]) \o post :
        pre \in {<<>>, <<BOM>>}, f \in LineSeqs, post \in {<<>>, <<NL>>} }

\* One call parseDataFile(text)
CallParse ==
    /\ calls < MaxCalls
    /\ result' = parseDataFile(text)
    /\ calls' = calls + 1
    /\ UNCHANGED text
    /\ UNCHANGED <<colorVars, packVars, mainVars>>

----------------------------------------------------------------------------
(* generateColorIndices *)

\* String(n) of a non-negative integer, as a template literal prints it
RECURSIVE NumToString(_)
NumToString(n) ==
    IF n < 10 THEN <<Digits[n + 1]>>
    ELSE NumToString(n \div 10) \o <<Digits[(n % 10) + 1]>>

\* `${a[i]}` for a 0-based index i: an index past the end reads undefined
Interpolate(a, i) ==
    IF i + 1 <= Len(a) THEN NumToString(a[i + 1]) ELSE <<"undefined">>

\* A key that joins the three components without a separator
ColorKeyNoSeparator(a, i) ==
    Interpolate(a, i) \o Interpolate(a, i + 1) \o Interpolate(a, i + 2)

\* `${colorsArray[i]},${colorsArray[i+1]},${colorsArray[i+2]}`
ColorKey(a, i) ==
    Interpolate(a, i) \o <<",">> \o Interpolate(a, i + 1) \o <<",">>
        \o Interpolate(a, i + 2)

\* colorMap.set(colorKey, ++nextIndex): the index is taken after the increment
MapAfterPreIncrement(map, key, next) ==
    IF key \in DOMAIN map THEN map ELSE map @@ (key :> (next + 1))

\* nextIndex++ done for every triple, seen before or not
NextAfterAlways(map, key, next) == next + 1

\* if (!colorMap.has(colorKey)) colorMap.set(colorKey, nextIndex++)
MapAfter(map, key, next) ==
    IF key \in DOMAIN map THEN map ELSE map @@ (key :> next)

NextAfter(map, key, next) ==
    IF key \in DOMAIN map THEN next ELSE next + 1

\* One iteration of the for loop, on the loop's state
LoopBody(a, st) ==
    LET key == ColorKey(a, st.i)
        map == MapAfter(st.colorMap, key, st.nextIndex)
    IN  [i            |-> st.i + 3,
         colorMap     |-> map,
         nextIndex    |-> NextAfter(st.colorMap, key, st.nextIndex),
         colorIndices |-> Append(st.colorIndices, map[key])]

LoopStart ==
    [i |-> 0, colorMap |-> <<>>, nextIndex |-> 0, colorIndices |-> <<>>]

RECURSIVE RunLoop(_, _)
RunLoop(a, st) == IF st.i < Len(a) THEN RunLoop(a, LoopBody(a, st)) ELSE st

\* The whole function: the returned array of indices
generateColorIndices(a) == RunLoop(a, LoopStart).colorIndices

\* The colour series the loop is run on: up to MaxTriples RGB triples, and
\* (a caller's contract violation) up to two stray values after them.
Colors == { <<1, 0, 0>>, <<0, 1, 0>>, <<1, 11, 0>>, <<11, 1, 0>> }

TripleSeqs == UNION {[1..n -> Colors] : n \in 0..MaxTriples}

ColorSeries ==
    { Flat(f) \o stray : f \in TripleSeqs, stray \in {<<>>, <<1>>, <<1, 0>>} }

LoopState ==
    [i |-> ci, colorMap |-> colorMap, nextIndex |-> nextIndex,
     colorIndices |-> colorIndices]

\* for (let i = 0; i < colorsArray.length; i += 3) { ... }
ColorStep ==
    /\ cpc = "loop"
    /\ ci < Len(colorsArray)
    /\ LET st == LoopBody(colorsArray, LoopState)
       IN  /\ ci' = st.i
           /\ colorMap' = st.colorMap
           /\ nextIndex' = st.nextIndex
           /\ colorIndices' = st.colorIndices
    /\ UNCHANGED <<colorsArray, cpc>>
    /\ UNCHANGED <<parseVars, packVars, mainVars>>

\* return colorIndices
ColorReturn ==
    /\ cpc = "loop"
    /\ ~ (ci < Len(colorsArray))
    /\ cpc' = "returned"
    /\ UNCHANGED <<colorsArray, ci, colorMap, colorIndices, nextIndex>>
    /\ UNCHANGED <<parseVars, packVars, mainVars>>

----------------------------------------------------------------------------
(* The Attributes object: addAttribute, getStride, getBuffer.  Its class is *)
(* not part of src/shaders.js, which only calls it and reads the name, size *)
(* and offset of each attribute; it is modelled from the specification.     *)

FloatBytes == 4

RECURSIVE SumSizes(_)
SumSizes(attrs) ==
    IF Len(attrs) = 0 THEN 0 ELSE Head(attrs).size + SumSizes(Tail(attrs))

\* An offset counted in floats instead of bytes
NextOffsetInFloats(attrs) == SumSizes(attrs)

\* byteOffset: the running sum of the preceding attributes' byte widths
NextOffset(attrs) == FloatBytes * SumSizes(attrs)

\* attributes.addAttribute(name, data, size)
addAttribute(attrs, name, data, size) ==
    Append(attrs, [name |-> name, data |-> data, size |-> size,
                   offset |-> NextOffset(attrs)])

\* attributes.getStride()
getStride(attrs) == FloatBytes * SumSizes(attrs)

\* The vertex count of the set, read off its first attribute
VertexCount(attrs) == Len(attrs[1].data) \div attrs[1].size

\* Every attribute holds exactly VertexCount(attrs) elements of its size
CountsAgree(attrs) ==
    \A k \in 1..Len(attrs) : Len(attrs[k].data) = VertexCount(attrs) * attrs[k].size

\* The float written last at 0-based float index k of the buffer: for each
\* vertex v and each attribute, size values go to v * stride + offset.
BufferFloat(attrs, k) ==
    LET stride == getStride(attrs)
        hits == { <<v, a, c>> \in (0..(VertexCount(attrs) - 1)) \X (1..Len(attrs)) \X (0..3) :
                    /\ c < attrs[a].size
                    /\ (v * stride + attrs[a].offset) \div FloatBytes + c = k }
    IN  IF hits = {} THEN 0
        ELSE LET h == CHOOSE x \in hits :
                        \A y \in hits : y[1] < x[1] \/ (y[1] = x[1] /\ y[2] <= x[2])
             IN  attrs[h[2]].data[h[1] * attrs[h[2]].size + h[3] + 1]

\* attributes.getBuffer(): vertexCount * stride bytes, as floats
getBuffer(attrs) ==
    [k \in 1..((VertexCount(attrs) * getStride(attrs)) \div FloatBytes) |->
        BufferFloat(attrs, k - 1)]

\* buffer.byteLength
ByteLength(buf) == FloatBytes * Len(buf)

AttrNames == <<"a_Position", "a_Normal", "a_ColorIndex">>

Sizes == {1, 3, 4}

\* Per-vertex data of n elements of the given size, in one of three shapes:
\* all zero, 1 in the second component, the vertex number in the first.
PatternData(pat, n, size) ==
    [k \in 1..(n * size) |->
        CASE pat = "zero"   -> 0
          [] pat = "second" -> IF (k - 1) % size = 1 THEN 1 ELSE 0
          [] pat = "vertex" -> IF (k - 1) % size = 0 THEN (k - 1) \div size ELSE 0]

Patterns == {"zero", "second", "vertex"}

AddAttribute ==
    /\ apc = "adding"
    /\ Len(attributes) < MaxAttrs
    /\ \E size \in Sizes, n \in 1..MaxVerts, pat \in Patterns :
          attributes' = addAttribute(attributes,
                                     AttrNames[(Len(attributes) % Len(AttrNames)) + 1],
                                     PatternData(pat, n, size), size)
    /\ UNCHANGED <<buffer, apc>>
    /\ UNCHANGED <<parseVars, colorVars, mainVars>>

\* getBuffer on a set whose vertex counts agree
PackBuffer ==
    /\ apc = "adding"
    /\ Len(attributes) > 0
    /\ CountsAgree(attributes)
    /\ buffer' = getBuffer(attributes)
    /\ apc' = "packed"
    /\ UNCHANGED attributes
    /\ UNCHANGED <<parseVars, colorVars, mainVars>>

\* getBuffer on a set whose vertex counts disagree: the contract violation
\* is raised to the caller
PackThrow ==
    /\ apc = "adding"
    /\ Len(attributes) > 0
    /\ ~ CountsAgree(attributes)
    /\ apc' = "thrown"
    /\ UNCHANGED <<attributes, buffer>>
    /\ UNCHANGED <<parseVars, colorVars, mainVars>>

----------------------------------------------------------------------------
(* main, loadTruckData, setupGUI, tick, draw *)

Sources == {"positions", "colors", "normals", "index"}

\* What a source file may hold: two vertices; two lines of which one is
\* malformed; nothing; a line of two numbers.
TwoVertices == <<"1", " ", "2", " ", "3", NL, "3", " ", "2", " ", "1">>
LostLine    == <<"1", " ", "2", " ", "3", NL, "x", " ", "2", " ", "1">>
EmptyFile   == <<>>
ShortLine   == <<"1", " ", "2">>

SourceTexts(s) ==
    IF s = "index" THEN {TwoVertices, EmptyFile}
    ELSE {TwoVertices, LostLine, EmptyFile, ShortLine}

\* let cameraAngle = 0; animationEnabled = true; animationSpeed = 0.5,
\* and the slider's range 0.1 .. 2.0, in tenths of a degree
FullTurn     == 3600
DefaultSpeed == 5
SpeedMin     == 1
SpeedMax     == 20

SpeedChoices == {SpeedMin, DefaultSpeed, SpeedMax}

NoArrays ==
    [positionsArray |-> <<>>, colorsArray |-> <<>>, colorIndices |-> <<>>,
     normalsArray |-> <<>>, indicesArray |-> <<>>]

\* let truckData = null
NullTruck == [isNull |-> TRUE, attrib |-> <<>>, vertex |-> <<>>, index |-> <<>>,
              hasIndex |-> FALSE, numIndices |-> 0]

\* main(): without a WebGL context, shaders or uniform locations it returns
\* early; otherwise it sets up the GUI and calls loadTruckData, which starts
\* the four fetches and suspends at its await.
Main ==
    /\ mpc = "init"
    /\ \E glOk \in BOOLEAN :
          IF glOk
          THEN /\ mpc' = "loading"
               /\ fetchState' = [s \in Sources |-> "pending"]
               /\ lpc' = "await"
          ELSE /\ mpc' = "aborted"
               /\ UNCHANGED <<fetchState, lpc>>
    /\ UNCHANGED <<fetchText, parsed, truckData, tickRan, drawn, cameraAngle,
                   animationEnabled, animationSpeed>>
    /\ UNCHANGED <<parseVars, colorVars, packVars>>

\* fetch(...).then(response => response.text()) fulfils
FetchResolve ==
    \E s \in Sources :
        /\ fetchState[s] = "pending"
        /\ \E t \in SourceTexts(s) :
              /\ fetchState' = [fetchState EXCEPT ![s] = "ok"]
              /\ fetchText' = [fetchText EXCEPT ![s] = t]
        /\ UNCHANGED <<mpc, lpc, parsed, truckData, tickRan, drawn, cameraAngle,
                       animationEnabled, animationSpeed>>
        /\ UNCHANGED <<parseVars, colorVars, packVars>>

\* fetch(...) or response.text() rejects
FetchReject ==
    \E s \in Sources :
        /\ fetchState[s] = "pending"
        /\ fetchState' = [fetchState EXCEPT ![s] = "failed"]
        /\ UNCHANGED <<mpc, fetchText, lpc, parsed, truckData, tickRan, drawn,
                       cameraAngle, animationEnabled, animationSpeed>>
        /\ UNCHANGED <<parseVars, colorVars, packVars>>

\* Promise.any in place of Promise.all: the first fetch to fulfil resumes the load
AnyFetched == \E s \in Sources : fetchState[s] = "ok"

\* Promise.all fulfils once every fetch has, and rejects once one has
AllFetched == \A s \in Sources : fetchState[s] = "ok"
SomeFetchFailed == \E s \in Sources : fetchState[s] = "failed"

\* The four parseDataFile calls and generateColorIndices
ParseSources(txt) ==
    LET colors == parseDataFile(txt["colors"])
    IN  [positionsArray |-> parseDataFile(txt["positions"]),
         colorsArray    |-> colors,
         colorIndices   |-> generateColorIndices(colors),
         normalsArray   |-> parseDataFile(txt["normals"]),
         indicesArray   |-> parseDataFile(txt["index"])]

\* The three addAttribute calls, in the order of the code
BuildAttributes(arr) ==
    addAttribute(
        addAttribute(
            addAttribute(<<>>, "a_Position", arr.positionsArray, 3),
            "a_ColorIndex", arr.colorIndices, 1),
        "a_Normal", arr.normalsArray, 3)

\* new Uint16Array(indicesArray)
Uint16Array(a) == [k \in 1..Len(a) |-> a[k] % 65536]

\* truckData = { shape: truckShape, numIndices: indicesArray.length }
BuildTruck(arr) ==
    LET attrs == BuildAttributes(arr)
    IN  [isNull |-> FALSE, attrib |-> attrs, vertex |-> getBuffer(attrs),
         index |-> Uint16Array(arr.indicesArray), hasIndex |-> TRUE,
         numIndices |-> Len(arr.indicesArray)]

\* A catch block that logs the error and does not throw it again
LoadOutcomeSwallowed(attrs) == "resolved"

\* How the body after the await ends: setupVertexBuffers packs the buffer,
\* and an error raised there is logged by the catch block and thrown again.
LoadOutcome(attrs) == IF CountsAgree(attrs) THEN "resolved" ELSE "rejected"

\* loadTruckData resumes after its await with the four texts
LoadContinue ==
    /\ lpc = "await"
    /\ AllFetched
    /\ LET arr == ParseSources(fetchText)
           out == LoadOutcome(BuildAttributes(arr))
       IN  /\ parsed' = arr
           /\ lpc' = out
           /\ truckData' = IF out = "resolved" /\ CountsAgree(BuildAttributes(arr))
                           THEN BuildTruck(arr) ELSE truckData
    /\ UNCHANGED <<mpc, fetchState, fetchText, tickRan, drawn, cameraAngle,
                   animationEnabled, animationSpeed>>
    /\ UNCHANGED <<parseVars, colorVars, packVars>>

\* The await throws the first fetch's failure: catch logs it and throws it on
LoadReject ==
    /\ lpc = "await"
    /\ SomeFetchFailed
    /\ lpc' = "rejected"
    /\ UNCHANGED <<mpc, fetchState, fetchText, parsed, truckData, tickRan, drawn,
                   cameraAngle, animationEnabled, animationSpeed>>
    /\ UNCHANGED <<parseVars, colorVars, packVars>>

\* The camera step without the wrap at 360 degrees
AdvanceNoWrap(angle, speed) == angle + speed

\* cameraAngle += animationSpeed; if (cameraAngle > 360) cameraAngle -= 360;
Advance(angle, speed) ==
    IF angle + speed > FullTurn THEN angle + speed - FullTurn ELSE angle + speed

\* The body of tick(): the camera step, then draw(), which hands the shape
\* to drawTruck only if (truckData && truckData.shape)
TickBody ==
    /\ cameraAngle' = IF animationEnabled THEN Advance(cameraAngle, animationSpeed)
                      ELSE cameraAngle
    /\ drawn' = (drawn \/ ~ truckData.isNull)
    /\ tickRan' = TRUE

\* loadTruckData().then(() => { tick(); })
MainThen ==
    /\ mpc = "loading"
    /\ lpc = "resolved"
    /\ mpc' = "running"
    /\ TickBody
    /\ UNCHANGED <<fetchState, fetchText, lpc, parsed, truckData,
                   animationEnabled, animationSpeed>>
    /\ UNCHANGED <<parseVars, colorVars, packVars>>

\* .catch(error => { console.error(...) })
MainCatch ==
    /\ mpc = "loading"
    /\ lpc = "rejected"
    /\ mpc' = "failed"
    /\ UNCHANGED <<fetchState, fetchText, lpc, parsed, truckData, tickRan, drawn,
                   cameraAngle, animationEnabled, animationSpeed>>
    /\ UNCHANGED <<parseVars, colorVars, packVars>>

\* requestAnimationFrame(tick) calls tick again
Tick ==
    /\ mpc = "running"
    /\ TickBody
    /\ UNCHANGED <<mpc, fetchState, fetchText, lpc, parsed, truckData,
                   animationEnabled, animationSpeed>>
    /\ UNCHANGED <<parseVars, colorVars, packVars>>

\* The GUI exists once setupGUI has run
GuiReady == mpc \in {"loading", "running", "failed"}

\* onChange of 'Animation On/Off'
ToggleAnimation ==
    /\ GuiReady
    /\ \E value \in BOOLEAN : animationEnabled' = value
    /\ UNCHANGED <<mpc, fetchState, fetchText, lpc, parsed, truckData, tickRan,
                   drawn, cameraAngle, animationSpeed>>
    /\ UNCHANGED <<parseVars, colorVars, packVars>>

\* onChange of 'Animation Speed'
SetSpeed ==
    /\ GuiReady
    /\ \E value \in SpeedChoices : animationSpeed' = value
    /\ UNCHANGED <<mpc, fetchState, fetchText, lpc, parsed, truckData, tickRan,
                   drawn, cameraAngle, animationEnabled>>
    /\ UNCHANGED <<parseVars, colorVars, packVars>>

----------------------------------------------------------------------------
(* Specifications.  Each starts the part it exercises on its inputs and     *)
(* leaves the other parts in their start state.                             *)

\* parseDataFile called on every text of Texts
InitParse ==
    /\ text \in Texts /\ result = <<>> /\ calls = 0
    /\ colorsArray = <<>> /\ ci = 0 /\ colorMap = <<>> /\ colorIndices = <<>>
    /\ nextIndex = 0 /\ cpc = "loop"
    /\ attributes = <<>> /\ buffer = <<>> /\ apc = "adding"
    /\ mpc = "init" /\ lpc = "idle"
    /\ fetchState = [s \in Sources |-> "idle"] /\ fetchText = [s \in Sources |-> <<>>]
    /\ parsed = NoArrays /\ truckData = NullTruck /\ tickRan = FALSE /\ drawn = FALSE
    /\ cameraAngle = 0 /\ animationEnabled = TRUE /\ animationSpeed = DefaultSpeed

NextParse == CallParse

SpecParse == InitParse /\ [][NextParse]_vars

\* The loop of generateColorIndices run on every series of ColorSeries
InitColor ==
    /\ text = <<>> /\ result = <<>> /\ calls = 0
    /\ colorsArray \in ColorSeries
    /\ ci = LoopStart.i /\ colorMap = LoopStart.colorMap
    /\ colorIndices = LoopStart.colorIndices /\ nextIndex = LoopStart.nextIndex
    /\ cpc = "loop"
    /\ attributes = <<>> /\ buffer = <<>> /\ apc = "adding"
    /\ mpc = "init" /\ lpc = "idle"
    /\ fetchState = [s \in Sources |-> "idle"] /\ fetchText = [s \in Sources |-> <<>>]
    /\ parsed = NoArrays /\ truckData = NullTruck /\ tickRan = FALSE /\ drawn = FALSE
    /\ cameraAngle = 0 /\ animationEnabled = TRUE /\ animationSpeed = DefaultSpeed

NextColor == ColorStep \/ ColorReturn

SpecColor == InitColor /\ [][NextColor]_vars

\* The program from window.onload on: nothing parsed, no Attributes object
\* filled, main not yet run
Init ==
    /\ text = <<>> /\ result = <<>> /\ calls = 0
    /\ colorsArray = <<>> /\ ci = 0 /\ colorMap = <<>> /\ colorIndices = <<>>
    /\ nextIndex = 0 /\ cpc = "loop"
    /\ attributes = <<>> /\ buffer = <<>> /\ apc = "adding"
    /\ mpc = "init" /\ lpc = "idle"
    /\ fetchState = [s \in Sources |-> "idle"] /\ fetchText = [s \in Sources |-> <<>>]
    /\ parsed = NoArrays /\ truckData = NullTruck /\ tickRan = FALSE /\ drawn = FALSE
    /\ cameraAngle = 0 /\ animationEnabled = TRUE /\ animationSpeed = DefaultSpeed

\* An Attributes object filled by addAttribute and packed by getBuffer
NextPack == AddAttribute \/ PackBuffer \/ PackThrow

SpecPack == Init /\ [][NextPack]_vars

Next ==
    \/ Main \/ FetchResolve \/ FetchReject \/ LoadContinue \/ LoadReject
    \/ MainThen \/ MainCatch \/ Tick \/ ToggleAnimation \/ SetSpeed

Spec == Init /\ [][Next]_vars
----------------------------------------------------------------------------
(* What the claims speak of, stated without the code's own string           *)
(* operations: tokens are maximal runs of characters that are not white     *)
(* space, lines are counted by the newlines before a position.              *)

SetMin(S) == CHOOSE x \in S : \A y \in S : x <= y
SetMax(S) == CHOOSE x \in S : \A y \in S : y <= x

RECURSIVE Ascending(_)
Ascending(S) ==
    IF S = {} THEN <<>> ELSE <<SetMin(S)>> \o Ascending(S \ {SetMin(S)})

TokenStarts(s) ==
    { i \in 1..Len(s) : ~ IsSpace(s[i]) /\ (i = 1 \/ IsSpace(s[i - 1])) }

TokenAt(s, i) ==
    SubSeq(s, i, SetMax({ j \in i..Len(s) : \A k \in i..j : ~ IsSpace(s[k]) }))

LineNo(s, i) == Cardinality({ j \in 1..(i - 1) : s[j] = NL })

LineCount(s) == LineNo(s, Len(s) + 1) + 1

TokensOfLine(s, l) == { i \in TokenStarts(s) : LineNo(s, i) = l }

\* Every token of line l is a finite number (true of a line without tokens)
LineWellFormed(s, l) ==
    \A i \in TokensOfLine(s, l) : Number(TokenAt(s, i)).kind = "finite"

\* Line l holds a token that is not a finite number
LineDropped(s, l) == ~ LineWellFormed(s, l)

SurvivingTokens(s) ==
    { i \in TokenStarts(s) : LineWellFormed(s, LineNo(s, i)) }

\* The values of the surviving tokens, in the order of the text
ExpectedSeries(s) ==
    LET at == Ascending(SurvivingTokens(s))
    IN  [k \in 1..Len(at) |-> Number(TokenAt(s, at[k])).val]

\* No token at all: empty or white space only
Blank(s) == TokenStarts(s) = {}

\* Every line of the text proper (the text without the byte-order mark and
\* the white space around it) is dropped as invalid
EveryLineDropped(s) ==
    LET t == Trim(StripBOM(s))
    IN  \A l \in 0..(LineCount(t) - 1) : LineDropped(t, l)

\* C1: with at least one surviving line, parseDataFile returns exactly the
\* values of the tokens of the well-formed lines, in the order of the text;
\* lines with an invalid token and blank lines contribute nothing.
C1_ParseReturnsSurvivingTokens ==
    (calls > 0 /\ SurvivingTokens(text) # {}) => result = ExpectedSeries(text)

\* C2: on an empty or white-space-only text (a byte-order mark included),
\* and on a text all of whose lines are dropped as invalid, every call of
\* parseDataFile returns the default cube series, which is not empty.
C2_EmptyOrInvalidGivesDefaultCube ==
    (calls > 0 /\ (Blank(StripBOM(text)) \/ EveryLineDropped(text)))
        => (result = createDefaultCubeData /\ Len(result) > 0)

C2_Witness ==
    /\ calls = 2
    /\ ~ Blank(StripBOM(text))
    /\ EveryLineDropped(text)
    /\ LineCount(Trim(StripBOM(text))) >= 2
    /\ text[1] = BOM
    /\ result = createDefaultCubeData

TripleCount(a) == Len(a) \div 3

TripleAt(a, k) == <<a[3 * k - 2], a[3 * k - 1], a[3 * k]>>

DistinctTriples(a) == { TripleAt(a, k) : k \in 1..TripleCount(a) }

Range(f) == { f[k] : k \in DOMAIN f }

PaletteSize == Cardinality(DOMAIN colorMap)

\* C3: for a non-empty series of whole triples, generateColorIndices returns
\* one index per triple, the palette holds as many entries as there are
\* distinct triples, and the indices used are exactly 0 .. paletteSize - 1.
C3_IndexCountAndDensePalette ==
    (cpc = "returned" /\ Len(colorsArray) > 0 /\ Len(colorsArray) % 3 = 0) =>
        /\ Len(colorIndices) = TripleCount(colorsArray)
        /\ PaletteSize = Cardinality(DistinctTriples(colorsArray))
        /\ SetMax(Range(colorIndices)) + 1 = PaletteSize
        /\ Range(colorIndices) = 0..(PaletteSize - 1)

C3_Witness ==
    /\ cpc = "returned"
    /\ TripleCount(colorsArray) = 3
    /\ Len(colorsArray) % 3 = 0
    /\ Cardinality(DistinctTriples(colorsArray)) = 2
    /\ PaletteSize = 2

\* C4: two vertices get the same index exactly when their triples are equal
\* in all three components.
C4_SameIndexIffSameTriple ==
    (cpc = "returned" /\ Len(colorsArray) % 3 = 0) =>
        \A i, j \in 1..TripleCount(colorsArray) :
            (colorIndices[i] = colorIndices[j])
                <=> (TripleAt(colorsArray, i) = TripleAt(colorsArray, j))

C4_Witness ==
    /\ cpc = "returned"
    /\ Len(colorsArray) = 9
    /\ TripleAt(colorsArray, 1) = <<1, 11, 0>>
    /\ TripleAt(colorsArray, 2) = <<11, 1, 0>>
    /\ TripleAt(colorsArray, 3) = <<1, 11, 0>>
    /\ colorIndices = <<0, 1, 0>>

\* C5: at every step of the loop the indices handed out so far are in
\* first-seen order: a triple not seen before got the palette size of that
\* moment, which is one more than the largest index before it (0 for the
\* first triple); a triple seen before got the index of its first
\* occurrence.  Hence 1 0 0 / 1 0 0 / 0 1 0 gives palette size 2 and
\* indices 0, 0, 1.
C5_FirstSeenOrder ==
    (Len(colorsArray) % 3 = 0) =>
        /\ \A k \in 1..Len(colorIndices) :
              LET earlier == { j \in 1..(k - 1) :
                                 TripleAt(colorsArray, j) = TripleAt(colorsArray, k) }
                  before  == { colorIndices[j] : j \in 1..(k - 1) }
              IN  IF earlier = {}
                  THEN /\ colorIndices[k]
                            = Cardinality({ TripleAt(colorsArray, j) : j \in 1..(k - 1) })
                       /\ colorIndices[k] = IF before = {} THEN 0 ELSE SetMax(before) + 1
                  ELSE colorIndices[k] = colorIndices[SetMin(earlier)]
        /\ (cpc = "returned" /\ colorsArray = <<1, 0, 0, 1, 0, 0, 0, 1, 0>>)
              => (PaletteSize = 2 /\ colorIndices = <<0, 0, 1>>)

C5_Witness ==
    /\ cpc = "returned"
    /\ colorsArray = <<1, 0, 0, 1, 0, 0, 0, 1, 0>>
    /\ colorIndices = <<0, 0, 1>>
    /\ PaletteSize = 2
\* The byte ranges of the attributes inside one vertex's region
ByteRange(attr) == attr.offset .. (attr.offset + 4 * attr.size - 1)

WidthSum(attrs, n) ==
    LET sizes == [k \in 1..n |-> attrs[k].size]
        RECURSIVE Sum(_)
        Sum(q) == IF q = <<>> THEN 0 ELSE q[1] + Sum(Tail(q))
    IN  Sum(sizes)

\* C6: the stride is 4 bytes times the sum of the widths, each offset 4
\* bytes times the sum of the widths before it, the packed buffer V x stride
\* bytes, and the attributes' byte ranges tile a vertex's region: disjoint,
\* no gap.  Widths 3, 3, 1 with V = 2 give stride 28, last offset 24 and 56
\* bytes.
C6_StrideOffsetsAndTiling ==
    LET n == Len(attributes)
        stride == getStride(attributes)
    IN  /\ stride = 4 * WidthSum(attributes, n)
        /\ \A k \in 1..n : attributes[k].offset = 4 * WidthSum(attributes, k - 1)
        /\ \A j, k \in 1..n :
              j # k => ByteRange(attributes[j]) \cap ByteRange(attributes[k]) = {}
        /\ UNION { ByteRange(attributes[k]) : k \in 1..n } = 0..(stride - 1)
        /\ apc = "packed" =>
              /\ VertexCount(attributes) > 0
              /\ ByteLength(buffer) = VertexCount(attributes) * stride
              /\ ( /\ [k \in 1..n |-> attributes[k].size] = <<3, 3, 1>>
                   /\ VertexCount(attributes) = 2 )
                    => ( /\ stride = 28
                         /\ attributes[3].offset = 24
                         /\ ByteLength(buffer) = 56 )

C6_Witness ==
    /\ apc = "packed"
    /\ Len(attributes) = 3
    /\ attributes[1].data = <<0, 0, 0, 1, 0, 0>> /\ attributes[1].size = 3
    /\ attributes[2].data = <<0, 1, 0, 0, 1, 0>> /\ attributes[2].size = 3
    /\ attributes[3].data = <<0, 0>> /\ attributes[3].size = 1
    /\ ByteLength(buffer) = 56
    /\ buffer = <<0, 0, 0, 0, 1, 0, 0, 1, 0, 0, 0, 1, 0, 0>>

\* C7: parsing starts only after all four fetches have completed; tick runs
\* only after loadTruckData has completed and set truckData; once a fetch
\* has failed nothing is parsed, the load is rejected or about to be, and
\* tick never runs; a failed fetch is never started again.
C7_LoadOrdering ==
    /\ [] /\ parsed # NoArrays => \A s \in Sources : fetchState[s] = "ok"
          /\ tickRan => (lpc = "resolved" /\ ~ truckData.isNull /\ parsed # NoArrays)
          /\ mpc = "running" => tickRan
          /\ (\E s \in Sources : fetchState[s] = "failed") =>
                /\ parsed = NoArrays
                /\ truckData.isNull
                /\ ~ tickRan
                /\ mpc # "running"
                /\ lpc \in {"await", "rejected"}
                /\ lpc = "await" => ENABLED LoadReject
    /\ [][ \A s \in Sources :
              fetchState[s] = "failed" => fetchState'[s] = "failed" ]_vars

C7_Witness ==
    /\ mpc = "failed"
    /\ lpc = "rejected"
    /\ fetchState["normals"] = "failed"
    /\ fetchState["positions"] = "ok" /\ fetchText["positions"] = TwoVertices
    /\ fetchState["colors"] = "ok"
    /\ fetchState["index"] = "ok"
    /\ parsed = NoArrays
    /\ ~ tickRan

\* The attributes loadTruckData built from the parsed arrays disagree on the
\* vertex count
CountsDisagree ==
    \/ Len(parsed.positionsArray) # 3 * Len(parsed.colorIndices)
    \/ Len(parsed.normalsArray) # 3 * Len(parsed.colorIndices)

C9_ParsedLengthsDivisibleBy3 ==
    /\ Len(parsed.positionsArray) % 3 = 0
    /\ Len(parsed.colorsArray) % 3 = 0
    /\ Len(parsed.normalsArray) % 3 = 0

\* C10: cameraAngle stays within 0 .. 360 degrees; a tick with the
\* animation on adds animationSpeed and takes 360 off once when the sum
\* exceeds 360, a tick with the animation off leaves cameraAngle alone, and
\* the GUI handlers do not touch it.
C10_CameraAngleInRange ==
    /\ [](cameraAngle >= 0 /\ cameraAngle <= 3600)
    /\ [][ /\ (tickRan' /\ (mpc = "running" \/ mpc' = "running")
                 /\ animationEnabled' = animationEnabled
                 /\ animationSpeed' = animationSpeed) =>
                  cameraAngle' =
                     IF ~ animationEnabled THEN cameraAngle
                     ELSE IF cameraAngle + animationSpeed > 3600
                          THEN cameraAngle + animationSpeed - 3600
                          ELSE cameraAngle + animationSpeed
           /\ (animationEnabled' # animationEnabled \/ animationSpeed' # animationSpeed)
                 => cameraAngle' = cameraAngle ]_vars

C10_Witness ==
    /\ tickRan
    /\ cameraAngle = 3600
    /\ ~ animationEnabled
    /\ animationSpeed = SpeedMax

====
